---- MODULE Spec2Model ----
(***************************************************************************)
(* Model of slixmpp/plugins/xep_0223.py (XEP-0223: Persistent Storage of   *)
(* Private Data via PubSub): the three request-shaping operations          *)
(* configure, store and retrieve, the objects the caller keeps (an options *)
(* form and an item_ids list, both passed by reference) and the single     *)
(* request each operation hands to the pubsub plugins.                     *)
(*                                                                         *)
(* Conventions.  An optional argument is a sequence of length 0 (None) or  *)
(* 1.  Field attributes are strings; Python's None is "None" and Python's  *)
(* True is "True" there.                                                   *)
(***************************************************************************)
EXTENDS Integers, Sequences, FiniteSets, TLC

VARIABLES callerOptions, callerIds, inv, outbox, transport, result, invocations

vars == <<callerOptions, callerIds, inv, outbox, transport, result, invocations>>

(* ---------------------------- bounds ----------------------------------- *)
MaxFields == 2
MaxIds == 2
MaxCalls == 2

(* --------------------------- constants --------------------------------- *)
None == "None"
PUBLISH_OPTIONS_NS == "http://jabber.org/protocol/pubsub#publish-options"

profile ==
  << [var |-> "pubsub#persist_items", value |-> "True"],
     [var |-> "pubsub#access_model", value |-> "whitelist"] >>

ProfileVars == {profile[i].var : i \in 1..Len(profile)}

Opt(S) == {<<>>} \cup {<<s>> : s \in S}

Range(s) == {s[i] : i \in 1..Len(s)}

(* --------------------- the data form (xep_0004) ------------------------ *)
Form == [type |-> None, fields |-> <<>>]

SetType(form, t) == [form EXCEPT !.type = t]

FieldVars(form) == {form.fields[i].var : i \in 1..Len(form.fields)}

Positions(form, var) == {i \in 1..Len(form.fields) : form.fields[i].var = var}

get_fields_set_value(form, var, value) ==
  IF Positions(form, var) = {} THEN form
  ELSE LET k == CHOOSE i \in Positions(form, var) :
                  \A j \in Positions(form, var) : j <= i
       IN [form EXCEPT !.fields[k].value = value]

add_field(form, var, ftype, value) ==
  IF var \in FieldVars(form)
  THEN get_fields_set_value(form, var, value)
  ELSE [form EXCEPT !.fields =
          Append(@, [var |-> var, ftype |-> ftype, value |-> value])]

IsFalsy(options) == options = <<>>

(* ------------------------------ configure ------------------------------ *)
RECURSIVE ConfigAddFrom(_, _)
ConfigAddFrom(config, i) ==
  IF i > Len(profile) THEN config
  ELSE ConfigAddFrom(add_field(config, profile[i].var, None, profile[i].value),
                     i + 1)

ConfigFormSkipFirst == ConfigAddFrom(SetType(Form, "submit"), 2)

ConfigForm == ConfigAddFrom(SetType(Form, "submit"), 1)

ConfigureRequest(node, kw) ==
  [op |-> "set_node_config", jid |-> <<>>, stanza |-> <<>>, node |-> node,
   id |-> <<>>, form |-> <<ConfigForm>>, item_ids |-> <<>>,
   kw |-> [kw EXCEPT !.timeout_callback = <<>>]]

(* -------------------------------- store -------------------------------- *)
FreshOptionsNoFormType == SetType(Form, "submit")

FreshOptions ==
  add_field(SetType(Form, "submit"), "FORM_TYPE", "hidden", PUBLISH_OPTIONS_NS)

ChooseOptionsForceFormType(options) ==
  IF IsFalsy(options) THEN FreshOptions
  ELSE IF "FORM_TYPE" \in FieldVars(options[1]) THEN options[1]
  ELSE add_field(options[1], "FORM_TYPE", "hidden", PUBLISH_OPTIONS_NS)

ChooseOptions(options) ==
  IF IsFalsy(options) THEN FreshOptions ELSE options[1]

MergeFieldKeepCaller(options, fields, field, value) ==
  IF field \notin fields
  THEN get_fields_set_value(add_field(options, field, None, None), field, value)
  ELSE options

MergeFieldAlwaysAppend(options, fields, field, value) ==
  [options EXCEPT !.fields =
     Append(@, [var |-> field, ftype |-> None, value |-> value])]

MergeFieldReAdd(options, fields, field, value) ==
  LET rest == SelectSeq(options.fields, LAMBDA f : f.var # field)
  IN [options EXCEPT !.fields =
        Append(rest, [var |-> field, ftype |-> None, value |-> value])]

MergeField(options, fields, field, value) ==
  LET added == IF field \notin fields
               THEN add_field(options, field, None, None)
               ELSE options
  IN get_fields_set_value(added, field, value)

RECURSIVE MergeFrom(_, _, _)
MergeFrom(options, fields, i) ==
  IF i > Len(profile) THEN options
  ELSE MergeFrom(MergeField(options, fields, profile[i].var, profile[i].value),
                 fields, i + 1)

MergeProfile(options) == MergeFrom(options, FieldVars(options), 1)

StoreOptions(options) == MergeProfile(ChooseOptions(options))

PublishRequest(stanza, node, id, options, kw) ==
  [op |-> "publish", jid |-> <<>>, stanza |-> stanza, node |-> node,
   id |-> <<>>, form |-> <<options>>, item_ids |-> <<>>, kw |-> kw]

(* ------------------------------- retrieve ------------------------------ *)
ComposeIdsPrepend(id, item_ids) ==
  LET ids == IF item_ids = <<>> THEN <<>> ELSE item_ids[1]
  IN IF id # <<>> THEN <<id[1]>> \o ids ELSE ids

ComposeIds(id, item_ids) ==
  LET ids == IF item_ids = <<>> THEN <<>> ELSE item_ids[1]
  IN IF id # <<>> THEN Append(ids, id[1]) ELSE ids

GetItemsRequest(node, ids, kw) ==
  [op |-> "get_items", jid |-> <<>>, stanza |-> <<>>, node |-> node,
   id |-> <<>>, form |-> <<>>, item_ids |-> ids, kw |-> kw]

(* ------------------------- delegated call ------------------------------ *)
Outcomes == {"ok", "timeout", "protocol-error", "transport-failure"}

ReturnSwallow(outcome) == IF outcome = "ok" THEN outcome ELSE None

Return(outcome) == outcome

(* ----------------------------- inputs ---------------------------------- *)
Stanzas == {"payload"}
Nodes == {"urn:example"}
Ids == {"A", "X"}

NoKw == [ifrom |-> <<>>, callback |-> <<>>, timeout |-> <<>>,
         timeout_callback |-> <<>>]

AllKw == [ifrom |-> <<"me@example">>, callback |-> <<"cb">>,
          timeout |-> <<5>>, timeout_callback |-> <<"tcb">>]

KwArgs == {NoKw, AllKw}

CallerFields ==
  { [var |-> "FORM_TYPE", ftype |-> "hidden", value |-> PUBLISH_OPTIONS_NS],
    [var |-> "FORM_TYPE", ftype |-> "hidden", value |-> "urn:other"],
    [var |-> "pubsub#persist_items", ftype |-> None, value |-> "False"],
    [var |-> "pubsub#persist_items", ftype |-> "boolean", value |-> "True"],
    [var |-> "pubsub#access_model", ftype |-> None, value |-> "open"],
    [var |-> "pubsub#access_model", ftype |-> "list-single", value |-> "whitelist"],
    [var |-> "pubsub#max_items", ftype |-> None, value |-> "10"] }

UniqueVars(fs) == \A i, j \in 1..Len(fs) : fs[i].var = fs[j].var => i = j

FieldSeqs == UNION {[1..n -> CallerFields] : n \in 0..MaxFields}

CallerForms ==
  {[type |-> "submit", fields |-> fs] : fs \in {s \in FieldSeqs : UniqueVars(s)}}

CallerLists == UNION {[1..n -> Ids] : n \in 0..MaxIds}

NoInv == [op |-> "none", stanza |-> <<>>, node |-> <<>>, id |-> <<>>,
          options |-> <<>>, item_ids |-> <<>>,
          kw |-> NoKw]

(* ----------------------------- actions --------------------------------- *)
Configure ==
  \E node \in Nodes, kw \in KwArgs, outcome \in Outcomes :
    /\ invocations < MaxCalls
    /\ inv' = [NoInv EXCEPT !.op = "configure", !.node = <<node>>,
                            !.kw = [kw EXCEPT !.timeout_callback = <<>>]]
    /\ outbox' = <<ConfigureRequest(<<node>>, kw)>>
    /\ transport' = outcome
    /\ result' = Return(outcome)
    /\ invocations' = invocations + 1
    /\ UNCHANGED <<callerOptions, callerIds>>

Store ==
  \E stanza \in Stanzas, node \in Opt(Nodes), id \in Opt(Ids),
     byRef \in BOOLEAN, kw \in KwArgs, outcome \in Outcomes :
    LET options == IF byRef THEN <<callerOptions>> ELSE <<>>
        merged == StoreOptions(options)
    IN /\ invocations < MaxCalls
       /\ inv' = [NoInv EXCEPT !.op = "store", !.stanza = <<stanza>>,
                               !.node = node, !.id = id,
                               !.options = options, !.kw = kw]
       /\ outbox' = <<PublishRequest(<<stanza>>, node, id, merged, kw)>>
       /\ transport' = outcome
       /\ result' = Return(outcome)
       /\ callerOptions' = IF IsFalsy(options) THEN callerOptions ELSE merged
       /\ invocations' = invocations + 1
       /\ UNCHANGED callerIds

Retrieve ==
  \E node \in Nodes, id \in Opt(Ids), byRef \in BOOLEAN, kw \in KwArgs,
     outcome \in Outcomes :
    LET item_ids == IF byRef THEN <<callerIds>> ELSE <<>>
        ids == ComposeIds(id, item_ids)
    IN /\ invocations < MaxCalls
       /\ inv' = [NoInv EXCEPT !.op = "retrieve", !.node = <<node>>,
                               !.id = id, !.item_ids = item_ids, !.kw = kw]
       /\ outbox' = <<GetItemsRequest(<<node>>, ids, kw)>>
       /\ transport' = outcome
       /\ result' = Return(outcome)
       /\ callerIds' = IF item_ids = <<>> THEN callerIds ELSE ids
       /\ invocations' = invocations + 1
       /\ UNCHANGED callerOptions

InitCommon ==
  /\ inv = NoInv
  /\ outbox = <<>>
  /\ transport = None
  /\ result = None
  /\ invocations = 0

InitStore ==
  /\ InitCommon
  /\ callerOptions \in CallerForms
  /\ callerIds = <<>>

InitRetrieve ==
  /\ InitCommon
  /\ callerOptions = [type |-> "submit", fields |-> <<>>]
  /\ callerIds \in CallerLists

Init ==
  /\ InitCommon
  /\ callerOptions \in {f \in CallerForms : f.fields = <<>>}
  /\ callerIds \in {l \in CallerLists : Len(l) <= 1}

Next == Configure \/ Store \/ Retrieve

Spec == Init /\ [][Next]_vars

SpecStore == InitStore /\ [][Store]_vars

SpecRetrieve == InitRetrieve /\ [][Retrieve]_vars

(* ----------------------------- properties ------------------------------ *)
Occurrences(form, var) == Cardinality(Positions(form, var))

HasValue(form, var, value) ==
  \A k \in Positions(form, var) : form.fields[k].value = value

SentForm == outbox[1].form[1]

(* C1: whatever options form the caller passes to store, the form handed   *)
(* to publish holds pubsub#persist_items and pubsub#access_model exactly   *)
(* once each, with the values True and "whitelist", also when the caller   *)
(* supplied another value.                                                 *)
C1_ProfileWins ==
  inv.op = "store" =>
    /\ Occurrences(SentForm, "pubsub#persist_items") = 1
    /\ HasValue(SentForm, "pubsub#persist_items", "True")
    /\ Occurrences(SentForm, "pubsub#access_model") = 1
    /\ HasValue(SentForm, "pubsub#access_model", "whitelist")

C1_Witness ==
  /\ inv.op = "store"
  /\ inv.options # <<>>
  /\ \E k \in Positions(inv.options[1], "pubsub#access_model") :
       inv.options[1].fields[k].value = "open"
  /\ HasValue(SentForm, "pubsub#access_model", "whitelist")

(* C2: store called without options publishes exactly the submit form      *)
(* FORM_TYPE (hidden, publish-options namespace), pubsub#persist_items =   *)
(* True, pubsub#access_model = "whitelist", in this order, nothing else.   *)
C2_SynthesizedOptions ==
  (inv.op = "store" /\ inv.options = <<>>) =>
    outbox[1].form =
      << [type |-> "submit",
          fields |->
            << [var |-> "FORM_TYPE", ftype |-> "hidden",
                value |-> "http://jabber.org/protocol/pubsub#publish-options"],
               [var |-> "pubsub#persist_items", ftype |-> "None",
                value |-> "True"],
               [var |-> "pubsub#access_model", ftype |-> "None",
                value |-> "whitelist"] >>] >>

C2_Witness ==
  /\ inv.op = "store"
  /\ inv.options = <<>>
  /\ Len(SentForm.fields) = 3

(* C3: the identifier sequence retrieve sends to get_items is item_ids     *)
(* (empty when absent) followed by id when id is supplied; order kept, no  *)
(* deduplication.                                                          *)
C3_ComposedIds ==
  inv.op = "retrieve" =>
    outbox[1].item_ids =
      (IF inv.item_ids = <<>> THEN <<>> ELSE inv.item_ids[1]) \o inv.id

C3_Witness ==
  /\ inv.op = "retrieve"
  /\ inv.item_ids # <<>>
  /\ inv.id # <<>>
  /\ Len(inv.item_ids[1]) >= 2
  /\ inv.id[1] \in Range(inv.item_ids[1])
  /\ inv.item_ids[1][1] # inv.id[1]
  /\ Len(outbox[1].item_ids) = Len(inv.item_ids[1]) + 1

C5_Passthrough ==
  inv.op = "store" =>
    /\ outbox[1].stanza = inv.stanza
    /\ outbox[1].node = inv.node
    /\ outbox[1].id = inv.id
    /\ outbox[1].kw.ifrom = inv.kw.ifrom
    /\ outbox[1].kw.timeout = inv.kw.timeout

(* C6: the Profile merge is idempotent: a store given the options form the *)
(* previous store published publishes a form with the same fields, order   *)
(* and values.                                                             *)
C6_Idempotent ==
  [][(/\ inv.op = "store"
      /\ inv'.op = "store"
      /\ inv'.options = outbox[1].form)
       => outbox'[1].form = outbox[1].form]_vars

C6_Witness ==
  /\ invocations >= 2
  /\ inv.op = "store"
  /\ inv.options = outbox[1].form
  /\ callerOptions = SentForm
  /\ Len(SentForm.fields) >= 3

(* C7: for options supplied by the caller (also a form without fields) the *)
(* published form has a FORM_TYPE field iff the supplied one had it, with  *)
(* the caller's value.                                                     *)
C7_FormTypeNotForced ==
  (inv.op = "store" /\ inv.options # <<>>) =>
    /\ ("FORM_TYPE" \in FieldVars(SentForm))
         = ("FORM_TYPE" \in FieldVars(inv.options[1]))
    /\ \A k \in Positions(inv.options[1], "FORM_TYPE") :
         HasValue(SentForm, "FORM_TYPE", inv.options[1].fields[k].value)

C7_Witness ==
  /\ inv.op = "store"
  /\ inv.options # <<>>
  /\ inv.options[1].fields = <<>>
  /\ "FORM_TYPE" \notin FieldVars(SentForm)
  /\ Len(SentForm.fields) = 2

(* C8: retrieve leaves the caller's item_ids collection unchanged, and two *)
(* successive retrieve calls given the same collection and the same id     *)
(* send the same identifier sequence.                                      *)
C8_NoInterference ==
  [][inv'.op = "retrieve" =>
       /\ callerIds' = callerIds
       /\ (/\ inv.op = "retrieve"
           /\ inv.item_ids # <<>>
           /\ inv'.item_ids # <<>>
           /\ inv'.id = inv.id)
            => outbox'[1].item_ids = outbox[1].item_ids]_vars

ProfileOrder == <<"pubsub#persist_items", "pubsub#access_model">>

C10_MergeFrame ==
  (inv.op = "store" /\ inv.options # <<>>) =>
    LET old == inv.options[1].fields
        new == SentForm.fields
        absent == SelectSeq(ProfileOrder,
                            LAMBDA v : v \notin FieldVars(inv.options[1]))
    IN /\ SentForm.type = inv.options[1].type
       /\ Len(new) = Len(old) + Len(absent)
       /\ \A i \in 1..Len(old) :
            /\ new[i].var = old[i].var
            /\ new[i].ftype = old[i].ftype
            /\ old[i].var \notin {"pubsub#persist_items", "pubsub#access_model"}
                 => new[i] = old[i]
       /\ \A i \in 1..Len(absent) : new[Len(old) + i].var = absent[i]

C10_Witness ==
  /\ inv.op = "store"
  /\ inv.options # <<>>
  /\ Len(inv.options[1].fields) = 2
  /\ inv.options[1].fields[1].var = "pubsub#access_model"
  /\ inv.options[1].fields[1].ftype = "list-single"
  /\ inv.options[1].fields[2].var = "pubsub#max_items"
  /\ Len(SentForm.fields) = 3
  /\ SentForm.fields[3].var = "pubsub#persist_items"

====
